---- MODULE Spec2Model ----
(***************************************************************************)
(* The file exchange client of main.py: the module globals, the four GUI   *)
(* handlers (choose_file, submit_file, list_files, download_file) and the  *)
(* start-up in main().  requests.post is the only suspension point of a    *)
(* handler, so every handler is split at its post: the ...Call action runs *)
(* the code up to the request, the ...Return action runs the code from the *)
(* response (or the raised exception) to the handler's return.             *)
(*                                                                         *)
(* Strings that the code compares or lower-cases (file names) are          *)
(* sequences of character codes; the other strings are opaque.             *)
(***************************************************************************)
EXTENDS Integers, Sequences, FiniteSets, TLC

\* ------------------------------------------------------------------ bounds
\* Longest `files` array a list response carries.
MaxFiles == 2

\* ------------------------------------------------------------ input values
None == "None"

\* What os.getenv can return for one variable: unset, set to '', set.
EnvValues == {None, "", "value"}

\* Paths askopenfilename can return; '' is the cancelled dialog.
\* The second file cannot be opened for reading.
LocalPaths == {"/docs/report.pdf", "/docs/locked.bin"}
Unreadable == {"/docs/locked.bin"}

\* Paths asksaveasfilename can return; '' is the cancelled dialog.
SavePaths == {"/tmp/out.pdf"}

\* Bodies of a 200 download response.
Contents == {"%PDF", "PK"}

\* File names as character codes: "a", "A", "" and the placeholder 'N/A'.
NameLowerA == <<97>>
NameUpperA == <<65>>
NameEmpty == <<>>
NameNA == <<78, 47, 65>>

\* A JSON value under the key 'name' / 'metadata' of one entry of `files`:
\* the key is absent, is null, or holds a string / an object.
NameAbsent == [tag |-> "absent", s |-> <<>>]
NameNull == [tag |-> "null", s |-> <<>>]
NameStr(s) == [tag |-> "str", s |-> s]
MetaAbsent == [tag |-> "absent", size |-> 0, lastModified |-> "N/A"]
MetaNull == [tag |-> "null", size |-> 0, lastModified |-> "N/A"]
MetaObj(sz, lm) == [tag |-> "obj", size |-> sz, lastModified |-> lm]

\* The entries a server may put in `files`: well formed ones, one without a
\* name, one whose name is null and one whose metadata is null.
Items ==
    { [name |-> NameStr(NameLowerA), metadata |-> MetaAbsent],
      [name |-> NameStr(NameUpperA), metadata |-> MetaObj(7, "2024-01-01")],
      [name |-> NameStr(NameEmpty), metadata |-> MetaAbsent],
      [name |-> NameAbsent, metadata |-> MetaAbsent],
      [name |-> NameNull, metadata |-> MetaAbsent],
      [name |-> NameStr(NameLowerA), metadata |-> MetaNull] }

ItemSeqs == UNION { [1..n -> Items] : n \in 0..MaxFiles }

\* The value under the key 'files' of a list response.
FilesAbsent == [tag |-> "absent", items |-> <<>>]
FilesNull == [tag |-> "null", items |-> <<>>]
FilesList(items) == [tag |-> "list", items |-> items]
FilesValues == {FilesAbsent, FilesNull} \cup { FilesList(s) : s \in ItemSeqs }

\* The value under the key 'count': absent, or a number, which the server
\* is free to choose.
CountAbsent == [tag |-> "absent", n |-> 0]
CountInt(n) == [tag |-> "int", n |-> n]
CountValues == {CountAbsent, CountInt(0), CountInt(1), CountInt(2)}

\* What requests.post hands back: a raised RequestException, or a response
\* with a status code and a body.  A body is text that is no JSON, JSON that
\* is no object, or a JSON object with or without each of the three keys.
NoBody == [kind |-> "text", message |-> FALSE, files |-> FilesAbsent,
           count |-> CountAbsent]
NonObjectBody == [kind |-> "nonobject", message |-> FALSE, files |-> FilesAbsent,
                  count |-> CountAbsent]
ObjectBodies ==
    { [kind |-> "object", message |-> m, files |-> f, count |-> c] :
        m \in BOOLEAN, f \in FilesValues, c \in CountValues }
\* The bodies a list request is answered with.  Line 166 raises on a body
\* without `message` before `files` is read, so such a body is drawn with at
\* most one file.
ListBodies == {NoBody, NonObjectBody}
                \cup { b \in ObjectBodies : ~b.message => Len(b.files.items) <= 1 }

Raised == [exc |-> TRUE, status_code |-> 0, body |-> NoBody, content |-> ""]
Http(code, body, content) ==
    [exc |-> FALSE, status_code |-> code, body |-> body, content |-> content]

\* Responses to the submit request: the body is opaque to the client; the
\* one of a 200 happens to look like a listing.
SubmitResponses ==
    {Raised, Http(500, NoBody, ""),
     Http(200, [kind |-> "object", message |-> TRUE,
                files |-> FilesList(<<[name |-> NameStr(NameUpperA),
                                       metadata |-> MetaAbsent]>>),
                count |-> CountInt(1)], "")}
ListResponses ==
    {Raised, Http(500, NoBody, "")} \cup { Http(200, b, "") : b \in ListBodies }
DownloadResponses ==
    {Raised, Http(404, NoBody, ""), Http(500, NoBody, "")}
        \cup { Http(200, NoBody, c) : c \in Contents }

\* ---------------------------------------------------------- pure functions
\* str.lower() on one character code: 'A'..'Z' map to 'a'..'z'.
LowerChar(c) == IF c \in 65..90 THEN c + 32 ELSE c

\* str.lower()
Lower(s) == [i \in 1..Len(s) |-> LowerChar(s[i])]

\* s < t for Python strings: the first differing character decides, a proper
\* prefix is smaller.
StrLess(s, t) ==
    \E k \in 1..Len(t) :
        /\ k <= Len(s) + 1
        /\ \A i \in 1..(k - 1) : s[i] = t[i]
        /\ (k = Len(s) + 1) \/ (s[k] < t[k])

\* The sort key of line 173: f.get('name', '').lower().
SortKey(f) == IF f.name.tag = "absent" THEN <<>> ELSE Lower(f.name.s)

\* Evaluating the key raises AttributeError when the name is null.
KeyRaises(f) == f.name.tag = "null"

\* One step of the stable insertion sort that sorted() runs on short lists:
\* x goes after every element whose key is not greater than its own.
InsertSorted(done, x) ==
    LET after == { j \in 1..Len(done) : ~StrLess(SortKey(x), SortKey(done[j])) }
        n == Cardinality(after)
    IN  SubSeq(done, 1, n) \o <<x>> \o SubSeq(done, n + 1, Len(done))

\* sorted(files, key=...) of lines 171-174.
RECURSIVE Sorted(_)
Sorted(items) ==
    IF items = <<>> THEN <<>>
    ELSE InsertSorted(Sorted(SubSeq(items, 1, Len(items) - 1)), items[Len(items)])

\* Building one row raises AttributeError when metadata is null (line 178).
RowRaises(f) == f.metadata.tag = "null"

\* The row of lines 177-180: name, size and last-modified with their defaults.
Row(f) ==
    [name |-> IF f.name.tag = "absent" THEN NameNA ELSE f.name.s,
     size |-> IF f.metadata.tag = "obj" THEN f.metadata.size ELSE 0,
     last_modified |-> IF f.metadata.tag = "obj" THEN f.metadata.lastModified
                       ELSE "N/A"]

\* The loop of lines 176-180 on an emptied tree: rows are inserted in order
\* until one raises; what was inserted before stays.
RECURSIVE InsertRows(_, _)
InsertRows(tree, todo) ==
    IF todo = <<>> \/ RowRaises(Head(todo)) THEN tree
    ELSE InsertRows(Append(tree, Row(Head(todo))), Tail(todo))

\* -------------------------------------------------------------------- state
VARIABLES
    phase,                \* "imported", "mainloop", "embedded" or "exited"
    environ_token,        \* os.environ's SUPA_AUTH_TOKEN
    SUPA_UNPACK_API_URL,  \* module global, line 31
    SUPA_MAIN_API_URL,    \* module global, line 32
    selected_file,        \* module global, line 30
    file_tree,            \* the rows of the Treeview, in display order
    written,              \* the files this invocation opened for writing
    pc,                   \* "idle", or the post a handler is blocked in
    op,                   \* the handler invoked last
    filename,             \* download_file's local (line 207) while it is blocked
    response,             \* the last outcome of requests.post in this invocation
    sent,                 \* the requests posted by this invocation, in order
    list_calls,           \* calls of list_files made by this invocation
    log,                  \* the add_log messages of this invocation, in order
    dialogs,              \* the messagebox titles of this invocation, in order
    asked_save,           \* asksaveasfilename was opened by this invocation
    save_path,            \* the path it returned, "" when cancelled or not asked
    files_arg,            \* what this invocation handed to sorted(), line 172
    count_reported,       \* the N of its "Retrieved N files.", line 182
    escaped               \* an exception left the handler uncaught

vars == <<phase, environ_token, SUPA_UNPACK_API_URL, SUPA_MAIN_API_URL,
          selected_file, file_tree, written, pc, op, filename, response, sent,
          list_calls, log, dialogs, asked_save, save_path, files_arg,
          count_reported, escaped>>

config == <<phase, environ_token, SUPA_UNPACK_API_URL, SUPA_MAIN_API_URL>>

\* The local `response` of a handler: unbound before the post and when the
\* post raised, the response object after it.
NoResponse == [got |-> FALSE, exc |-> FALSE, status_code |-> 0,
               body |-> NoBody, content |-> ""]
Got(resp) == [got |-> TRUE, exc |-> resp.exc, status_code |-> resp.status_code,
              body |-> resp.body, content |-> resp.content]
NoFilesArg == [tag |-> "none", items |-> <<>>]
NoCount == [tag |-> "none", n |-> 0]

\* A check for None alone, which lets '' through.
IsNone(value) == value = None

\* `if not value` of lines 55, 108, 152, 222 and 314: None and '' are falsy.
Falsy(value) == value \in {None, ""}

\* get_env_variable / _initial_get_env_variable: the value, or None.
GetEnv(value) == IF Falsy(value) THEN None ELSE value

Init ==
    /\ phase = "imported"
    /\ environ_token \in EnvValues
    /\ SUPA_UNPACK_API_URL = None
    /\ SUPA_MAIN_API_URL = None
    /\ selected_file = None
    /\ file_tree = <<>>
    /\ written = <<>>
    /\ pc = "idle"
    /\ op = "none"
    /\ filename = <<>>
    /\ response = NoResponse
    /\ sent = <<>>
    /\ list_calls = 0
    /\ log = <<>>
    /\ dialogs = <<>>
    /\ asked_save = FALSE
    /\ save_path = ""
    /\ files_arg = NoFilesArg
    /\ count_reported = NoCount
    /\ escaped = FALSE

\* The handlers run only from the event loop (or the importing host), one
\* at a time.
Running == phase \in {"mainloop", "embedded"}
Idle == Running /\ pc = "idle"

\* What every handler invocation starts from.
Begin(name) ==
    /\ op' = name
    /\ response' = NoResponse
    /\ asked_save' = FALSE
    /\ save_path' = ""
    /\ written' = <<>>
    /\ files_arg' = NoFilesArg
    /\ count_reported' = NoCount

\* ----------------------------------------------------------------- start-up
\* A start-up that stops for a missing URL only.
FatalUrlsOnly(u, m, auth_token_check) == u = None \/ m = None

\* Line 338: any of the three values read at start-up is None.
Fatal(u, m, auth_token_check) == u = None \/ m = None \/ auth_token_check = None

\* main(), lines 269-340: the three variables are read once; any of them
\* missing ends the process before a widget is bound to a handler.
Main ==
    /\ phase = "imported"
    /\ \E u \in EnvValues, m \in EnvValues :
        LET missing == SelectSeq(<<u, m, environ_token>>, Falsy)
            fatal == Fatal(GetEnv(u), GetEnv(m), GetEnv(environ_token))
        IN  /\ SUPA_UNPACK_API_URL' = GetEnv(u)
            /\ SUPA_MAIN_API_URL' = GetEnv(m)
            /\ phase' = IF fatal THEN "exited" ELSE "mainloop"
            /\ dialogs' = [i \in 1..(Len(missing) + (IF fatal THEN 1 ELSE 0))
                             |-> "Configuration Error"]
            /\ log' = IF fatal THEN <<>>
                      ELSE <<"Application initialized. Configuration loaded.">>
    /\ selected_file' = None
    /\ Begin("main")
    /\ escaped' = FALSE
    /\ sent' = <<>>
    /\ list_calls' = 0
    /\ UNCHANGED <<environ_token, file_tree, pc, filename>>

\* The module imported by a host (lines 416-417 keep main() from running):
\* the host assigns the two URL globals itself, or leaves one of them None.
Embed ==
    /\ phase = "imported"
    /\ phase' = "embedded"
    /\ \E u \in {None, "value"}, m \in {None, "value"} :
        /\ u # None \/ m # None
        /\ SUPA_UNPACK_API_URL' = u
        /\ SUPA_MAIN_API_URL' = m
    /\ UNCHANGED <<environ_token, selected_file, file_tree, written, pc, op,
                   filename, response, sent, list_calls, log, dialogs,
                   asked_save, save_path, files_arg, count_reported, escaped>>

\* The importing host changes os.environ between two handler calls.  Under
\* main() nothing writes os.environ, so the token stays what start-up saw.
SetEnv ==
    /\ phase = "embedded"
    /\ pc = "idle"
    /\ environ_token' \in EnvValues \ {environ_token}
    /\ UNCHANGED <<phase, SUPA_UNPACK_API_URL, SUPA_MAIN_API_URL, selected_file,
                   file_tree, written, pc, op, filename, response, sent,
                   list_calls, log, dialogs, asked_save, save_path, files_arg,
                   count_reported, escaped>>

\* -------------------------------------------------------------- choose_file
\* A choose_file that keeps the selection when the dialog is cancelled.
SelectionKeptOnCancel(selection) == selection

\* Line 82: the cancelled dialog leaves no selection.
SelectionOnCancel(selection) == None

\* Lines 68-84: a returned path replaces the selection, '' clears it.
ChooseFile ==
    /\ Idle
    /\ \E file_path_str \in LocalPaths \cup {""} :
        IF file_path_str # ""
        THEN /\ selected_file' = file_path_str
             /\ log' = <<"Selected file">>
        ELSE /\ selected_file' = SelectionOnCancel(selected_file)
             /\ log' = <<"No file selected">>
    /\ Begin("choose")
    /\ escaped' = FALSE
    /\ dialogs' = <<>>
    /\ sent' = <<>>
    /\ list_calls' = 0
    /\ UNCHANGED <<config, file_tree, pc, filename>>

\* --------------------------------------------------------------- exceptions
\* response.json() raises json.JSONDecodeError, or (requests 2.27 and later)
\* requests.exceptions.JSONDecodeError, which derives from RequestException
\* too: which one depends on the installed requests.
JsonErrors == {"json.JSONDecodeError", "requests.JSONDecodeError"}

\* isinstance(e, requests.exceptions.RequestException)
IsRequestException(e) == e \in {"RequestException", "requests.JSONDecodeError"}

\* isinstance(e, json.JSONDecodeError)
IsJSONDecodeError(e) == e \in JsonErrors

\* A last clause `except ValueError`, which lets the other exceptions out.
IsValueError(e) == e \in JsonErrors

\* isinstance(e, Exception): true of everything raised in the handlers.
IsException(e) == TRUE

\* The except clauses of a handler (lines 132-139, 187-198, 258-265), tried
\* in order: the message logged and the dialog shown, or the escape.
Caught(text, title) == [caught |-> TRUE, log |-> <<text>>, dialogs |-> <<title>>]
Uncaught == [caught |-> FALSE, log |-> <<>>, dialogs |-> <<>>]

Except(name, e) ==
    IF IsRequestException(e)
    THEN Caught(CASE name = "submit" -> "Network or API error during submission"
                  [] name = "list" -> "Network or API error during file listing"
                  [] OTHER -> "Network or API error during download",
                "Network Error")
    ELSE IF name = "list" /\ IsJSONDecodeError(e)
    THEN Caught("Failed to parse JSON response from API.", "API Error")
    ELSE IF IsException(e)
    THEN Caught(CASE name = "submit" -> "An unexpected error occurred during file submission"
                  [] name = "list" -> "An unexpected error occurred during file listing"
                  [] OTHER -> "An unexpected error occurred during download",
                "Error")
    ELSE Uncaught

\* ------------------------------------------------------------ requests.post
\* A post that is sent again when it is not answered at once.
PostedTwice(sent0, request) == sent0 \o <<request, request>>

\* Lines 121, 162 and 232: one call of requests.post, outside any loop, sends
\* one request.
Posted(sent0, request) == Append(sent0, request)

\* --------------------------------------------------------------- list_files
\* Lines 142-162, the code before the response: entered from the button and
\* from submit_file's success branch, with what that invocation has logged,
\* shown and sent so far.
ListEnter(log0, dialogs0, sent0, calls0) ==
    /\ list_calls' = calls0 + 1
    /\ IF SUPA_UNPACK_API_URL = None
       THEN /\ log' = log0 \o <<"Error: SUPA_UNPACK_API_URL is not set.">>
            /\ dialogs' = dialogs0 \o <<"Configuration Error">>
            /\ sent' = sent0
            /\ pc' = "idle"
       ELSE IF Falsy(environ_token)
       THEN /\ log' = log0 \o <<"Retrieving list of files...",
                                "Error: Authorization token not found in environment variables!">>
            /\ dialogs' = dialogs0 \o <<"Configuration Error">>
            /\ sent' = sent0
            /\ pc' = "idle"
       ELSE /\ log' = log0 \o <<"Retrieving list of files...">>
            /\ dialogs' = dialogs0
            /\ sent' = Posted(sent0, "list")
            /\ pc' = "list_post"

\* A lookup with .get('message'), which raises on no missing key.
LookupLenient(body) == IF body.kind = "nonobject" THEN "TypeError" ELSE "none"

\* Line 166, response_data['message'] on the parsed body: the exception it
\* raises, or "none".
LookupRaises(body) ==
    IF body.kind = "nonobject" THEN "TypeError"
    ELSE IF ~body.message THEN "KeyError"
    ELSE "none"

\* A list_files that inserts the new rows without deleting the old ones.
DeleteChildrenSkipped(tree) == tree

\* Lines 168-169: every row of the tree is deleted.
DeleteChildren(tree) == <<>>

\* The outcome of the try body from the response on (lines 164-186): the
\* exception raised ("none" when it ran to its end), the tree it leaves,
\* what it logged and showed, what it handed to sorted() and the count it
\* reported.
ListDone(e, tree, logged, shown, arg, count) ==
    [exc |-> e, tree |-> tree, log |-> logged, dialogs |-> shown,
     arg |-> arg, count |-> count]

TryList(tree, resp, jsonExc) ==
    IF resp.exc
    THEN ListDone("RequestException", tree, <<>>, <<>>, NoFilesArg, NoCount)
    ELSE IF resp.status_code # 200
    THEN ListDone("none", tree, <<"Failed to list files">>, <<"Error">>,
                  NoFilesArg, NoCount)
    ELSE IF resp.body.kind = "text"
    THEN ListDone(jsonExc, tree, <<>>, <<>>, NoFilesArg, NoCount)
    ELSE IF LookupRaises(resp.body) # "none"
    THEN ListDone(LookupRaises(resp.body), tree, <<>>, <<>>, NoFilesArg, NoCount)
    ELSE
        LET cleared == DeleteChildren(tree)
            files == resp.body.files.items  \* [] when the key is absent
            arg == IF resp.body.files.tag = "null" THEN FilesNull
                   ELSE FilesList(files)
            built == InsertRows(cleared, Sorted(files))
        IN  IF resp.body.files.tag = "null"
            THEN ListDone("TypeError", cleared, <<"message">>, <<>>, arg, NoCount)
            ELSE IF \E i \in 1..Len(files) : KeyRaises(files[i])
            THEN ListDone("AttributeError", cleared, <<"message">>, <<>>, arg,
                          NoCount)
            ELSE IF \E i \in 1..Len(files) : RowRaises(files[i])
            THEN ListDone("AttributeError", built, <<"message">>, <<>>, arg,
                          NoCount)
            ELSE ListDone("none", built, <<"message", "Retrieved files.">>, <<>>,
                          arg, CountInt(resp.body.count.n))

\* list_files from the response to its return, lines 162-198.
ListReturn ==
    /\ Running
    /\ pc = "list_post"
    /\ \E resp \in ListResponses :
       /\ response' = Got(resp)
       /\ \E jsonExc \in IF resp.body.kind = "text" /\ resp.status_code = 200
                         THEN JsonErrors ELSE {"json.JSONDecodeError"} :
          \E r \in {TryList(file_tree, resp, jsonExc)} :
          \E h \in {IF r.exc = "none" THEN Caught("", "")
                     ELSE Except("list", r.exc)} :
            /\ file_tree' = r.tree
            /\ files_arg' = r.arg
            /\ count_reported' = r.count
            /\ log' = log \o r.log \o (IF r.exc = "none" THEN <<>> ELSE h.log)
            /\ dialogs' = dialogs \o r.dialogs
                            \o (IF r.exc = "none" THEN <<>> ELSE h.dialogs)
            /\ escaped' = ~h.caught
    /\ pc' = "idle"
    /\ UNCHANGED <<config, selected_file, written, op, filename, sent, list_calls,
                   asked_save, save_path>>

\* The "Refresh File List" button, lines 142-162.
ListCall ==
    /\ Idle
    /\ Begin("list")
    /\ escaped' = FALSE
    /\ ListEnter(<<>>, <<>>, <<>>, 0)
    /\ UNCHANGED <<config, selected_file, file_tree, filename>>

\* -------------------------------------------------------------- submit_file
\* A submit_file that goes on without a selection.
NoSelectionUnchecked(sel) == FALSE

\* Line 88: `if not selected_file`.
NoSelection(sel) == sel = None

\* A submit_file that takes every status but 404 for success.
SubmitSucceededLoosely(status_code) == status_code # 404

\* Line 123: the status that counts as success and chains into list_files.
SubmitSucceeded(status_code) == status_code = 200

\* A submit_file that shows the files of its own response body.
TreeFromSubmitBody(tree, resp) ==
    IF resp.exc \/ resp.body.kind # "object" THEN tree
    ELSE InsertRows(<<>>, resp.body.files.items)

\* Lines 123-127: the success branch logs the response text and leaves the
\* tree to list_files.
TreeAfterSubmit(tree, resp) == tree

\* The "Submit File" button, lines 87-121.
SubmitCall ==
    /\ Idle
    /\ Begin("submit")
    /\ list_calls' = 0
    /\ IF NoSelection(selected_file)
       THEN /\ log' = <<"Error: No file selected!">>
            /\ dialogs' = <<"Error">>
            /\ sent' = <<>>
            /\ pc' = "idle"
            /\ escaped' = FALSE
       ELSE IF SUPA_UNPACK_API_URL = None
       THEN /\ log' = <<"Error: SUPA_UNPACK_API_URL is not set.">>
            /\ dialogs' = <<"Configuration Error">>
            /\ sent' = <<>>
            /\ pc' = "idle"
            /\ escaped' = FALSE
       ELSE IF selected_file \in Unreadable
       THEN \* open() raises OSError at line 101, before the token is read
            LET h == Except("submit", "OSError")
            IN  /\ log' = <<"Preparing to submit file">> \o h.log
                /\ dialogs' = h.dialogs
                /\ sent' = <<>>
                /\ pc' = "idle"
                /\ escaped' = ~h.caught
       ELSE IF Falsy(environ_token)
       THEN /\ log' = <<"Preparing to submit file",
                        "Error: Authorization token not found in environment variables!">>
            /\ dialogs' = <<"Configuration Error">>
            /\ sent' = <<>>
            /\ pc' = "idle"
            /\ escaped' = FALSE
       ELSE /\ log' = <<"Preparing to submit file">>
            /\ dialogs' = <<>>
            /\ sent' = Posted(<<>>, "submit")
            /\ pc' = "submit_post"
            /\ escaped' = FALSE
    /\ UNCHANGED <<config, selected_file, file_tree, filename>>

\* A submit_file that clears the selection once it is done with the file.
SelectionClearedBySubmit(selection) == None

\* submit_file only reads the global selected_file (lines 88-105): it has no
\* `global` declaration, so the selection after it is the one before.
SelectionAfterSubmit(selection) == selection

\* submit_file from the response to its return or to the post of the
\* list_files it calls, lines 121-139.
SubmitReturn ==
    /\ Running
    /\ pc = "submit_post"
    /\ \E resp \in SubmitResponses :
        /\ response' = Got(resp)
        /\ file_tree' = TreeAfterSubmit(file_tree, resp)
        /\ selected_file' = SelectionAfterSubmit(selected_file)
        /\ IF resp.exc
           THEN LET h == Except("submit", "RequestException")
                IN  /\ log' = log \o h.log
                    /\ dialogs' = dialogs \o h.dialogs
                    /\ escaped' = ~h.caught
                    /\ pc' = "idle"
                    /\ UNCHANGED <<sent, list_calls>>
           ELSE IF SubmitSucceeded(resp.status_code)
           THEN /\ ListEnter(log \o <<"File submitted successfully!", "Response">>,
                             dialogs \o <<"Success">>, sent, list_calls)
                /\ UNCHANGED escaped
           ELSE /\ log' = Append(log, "Failed to submit file")
                /\ dialogs' = Append(dialogs, "Error")
                /\ pc' = "idle"
                /\ UNCHANGED <<sent, list_calls, escaped>>
    /\ UNCHANGED <<config, written, op, filename, asked_save, save_path, files_arg,
                   count_reported>>

\* ------------------------------------------------------------ download_file
\* A download_file that saves the body of a 404 as well.
DownloadSucceededOr404(status_code) == status_code \in {200, 404}

\* Line 234: the status whose body is saved.
DownloadSucceeded(status_code) == status_code = 200

\* A download_file that posts whatever name the row holds.
FilenameUnchecked(name) == FALSE

\* Line 209, `if not filename`: the row's name is the empty string.
NoFilename(name) == name = <<>>

\* Double click on the tree, lines 201-232.  Row 0 is a click on no row.
DownloadCall ==
    /\ Idle
    /\ Begin("download")
    /\ escaped' = FALSE
    /\ list_calls' = 0
    /\ \E row \in 0..Len(file_tree) :
        IF row = 0
        THEN /\ filename' = <<>>
             /\ log' = <<>>
             /\ dialogs' = <<>>
             /\ sent' = <<>>
             /\ pc' = "idle"
        ELSE IF NoFilename(file_tree[row].name)
        THEN /\ filename' = <<>>
             /\ log' = <<"No file selected for download.">>
             /\ dialogs' = <<>>
             /\ sent' = <<>>
             /\ pc' = "idle"
        ELSE IF SUPA_MAIN_API_URL = None
        THEN /\ filename' = <<>>
             /\ log' = <<"Error: SUPA_MAIN_API_URL is not set.">>
             /\ dialogs' = <<"Configuration Error">>
             /\ sent' = <<>>
             /\ pc' = "idle"
        ELSE IF Falsy(environ_token)
        THEN /\ filename' = <<>>
             /\ log' = <<"Downloading file",
                         "Error: Authorization token not found in environment variables!">>
             /\ dialogs' = <<"Configuration Error">>
             /\ sent' = <<>>
             /\ pc' = "idle"
        ELSE /\ filename' = file_tree[row].name
             /\ log' = <<"Downloading file">>
             /\ dialogs' = <<>>
             /\ sent' = Posted(<<>>, "download")
             /\ pc' = "download_post"
    /\ UNCHANGED <<config, selected_file, file_tree>>

\* The outcome of the try body from the response on (lines 234-257).  A
\* write fault is open() failing (no file is touched) or write() failing
\* after open() truncated the file (it is left empty).
DownloadDone(e, files, logged, shown, asked) ==
    [exc |-> e, written |-> files, log |-> logged, dialogs |-> shown, asked |-> asked]

\* A download_file that writes the decoded text of the response.
FileContentAsText(resp) == "text"

\* Line 235: file_content = response.content, the bytes as received.
FileContent(resp) == resp.content

Wrote(save_path_str, content) == [path |-> save_path_str, content |-> content]

TryDownload(files, resp, save_path_str, fault) ==
    IF resp.exc
    THEN DownloadDone("RequestException", files, <<>>, <<>>, FALSE)
    ELSE IF DownloadSucceeded(resp.status_code)
    THEN IF save_path_str = ""
         THEN DownloadDone("none", files, <<"Download cancelled.">>, <<>>, TRUE)
         ELSE IF fault = "open"
         THEN DownloadDone("OSError", files, <<>>, <<>>, TRUE)
         ELSE IF fault = "write"
         THEN DownloadDone("OSError", Append(files, Wrote(save_path_str, "")),
                           <<>>, <<>>, TRUE)
         ELSE DownloadDone("none",
                           Append(files, Wrote(save_path_str, FileContent(resp))),
                           <<"downloaded and saved">>, <<"Success">>, TRUE)
    ELSE IF resp.status_code = 404
    THEN DownloadDone("none", files, <<"not found on the server.">>, <<"Error">>,
                      FALSE)
    ELSE DownloadDone("none", files, <<"Failed to download file">>, <<"Error">>,
                      FALSE)

\* download_file from the response to its return, lines 232-265.
DownloadReturn ==
    /\ Running
    /\ pc = "download_post"
    /\ \E resp \in DownloadResponses :
       \E save_path_str \in IF DownloadSucceeded(resp.status_code)
                            THEN SavePaths \cup {""} ELSE {""} :
       \E fault \in IF save_path_str # "" THEN {"none", "open", "write"}
                    ELSE {"none"} :
       \E r \in {TryDownload(written, resp, save_path_str, fault)} :
       \E h \in {IF r.exc = "none" THEN Caught("", "")
                  ELSE Except("download", r.exc)} :
            /\ response' = Got(resp)
            /\ written' = r.written
            /\ asked_save' = r.asked
            /\ save_path' = IF r.asked THEN save_path_str ELSE ""
            /\ log' = log \o r.log \o (IF r.exc = "none" THEN <<>> ELSE h.log)
            /\ dialogs' = dialogs \o r.dialogs
                            \o (IF r.exc = "none" THEN <<>> ELSE h.dialogs)
            /\ escaped' = ~h.caught
    /\ pc' = "idle"
    /\ filename' = <<>>
    /\ UNCHANGED <<config, selected_file, file_tree, op, sent, list_calls,
                   files_arg, count_reported>>

\* ------------------------------------------------------------ specification
Next ==
    \/ Main
    \/ Embed
    \/ SetEnv
    \/ ChooseFile
    \/ SubmitCall
    \/ SubmitReturn
    \/ ListCall
    \/ ListReturn
    \/ DownloadCall
    \/ DownloadReturn

Spec == Init /\ [][Next]_vars

\* requests.post returns or raises within its timeout (30 s at lines 121 and
\* 162, 60 s at line 232), so a handler blocked in a post goes on.
PostReturns == SubmitReturn \/ ListReturn \/ DownloadReturn

LiveSpec == Spec /\ WF_vars(PostReturns)

\* ------------------------------------------------------------------- claims
Has(seq, x) == \E i \in 1..Len(seq) : seq[i] = x

\* The invocation is over and `text` is the last message it logged.
Ended(text) == pc = "idle" /\ log # <<>> /\ log[Len(log)] = text

\* The same, of the state a step leads to.
EndsWith(text) == pc' = "idle" /\ log' # <<>> /\ log'[Len(log')] = text

\* list_files ran to its last line (182).
ListEndedOk == Ended("Retrieved files.")

Occurrences(seq, x) == Cardinality({ i \in 1..Len(seq) : seq[i] = x })

\* The rows of the entries of a listing, in the server's order.
RowsOf(items) == [i \in 1..Len(items) |-> Row(items[i])]

SameRows(tree, items) ==
    /\ Len(tree) = Len(items)
    /\ \A i \in 1..Len(items) :
         Occurrences(tree, Row(items[i])) = Occurrences(RowsOf(items), Row(items[i]))

\* C1: List replaces, never merges: after a List that ended Ok the cache
\* holds exactly the rows of the entries of that response, each as often as
\* the response holds it, and nothing of the cache before.
C1_ListReplaces ==
    ListEndedOk => /\ files_arg.tag = "list"
                   /\ SameRows(file_tree, files_arg.items)
                   /\ file_tree = RowsOf(Sorted(files_arg.items))

\* A List ended Ok with a one-row listing.
C1_Witness ==
    /\ ListEndedOk
    /\ op = "list"
    /\ Len(file_tree) = 1
    /\ Len(files_arg.items) = 1

\* The steps in which a handler comes back from its post.
SubmitReturns == pc = "submit_post" /\ pc' # "submit_post"
ListReturns == pc = "list_post" /\ pc' # "list_post"
DownloadReturns == pc = "download_post" /\ pc' # "download_post"

\* C2: a List that does not end Ok leaves the cache as it was.
C2_FailedListKeepsCache ==
    [][(ListReturns /\ ~EndsWith("Retrieved files.")) => file_tree' = file_tree]_vars

\* The response that a step receives is an HTTP response of this status.
Receives(status_code) ==
    response'.got /\ ~response'.exc /\ response'.status_code = status_code

\* C3: a Submit whose request returns 200 reports its success and then calls
\* list_files exactly once, without touching the cache itself; no list
\* request is out while the submit request is, and when the chained List
\* ends Ok the cache holds the rows of the List response.
C3_SubmitChainsOneList ==
    /\ [][(SubmitReturns /\ Receives(200)) =>
            /\ list_calls' = 1
            /\ sent' = <<"submit", "list">>
            /\ pc' = "list_post"
            /\ Has(log', "File submitted successfully!")
            /\ Has(dialogs', "Success")
            /\ file_tree' = file_tree]_vars
    /\ [](pc = "submit_post" => list_calls = 0 /\ sent = <<"submit">>)
    /\ [](op = "submit" /\ list_calls > 0 =>
            /\ list_calls = 1
            /\ sent = <<"submit", "list">>
            /\ Has(log, "File submitted successfully!"))
    /\ [](op = "submit" /\ ListEndedOk =>
            /\ files_arg.tag = "list"
            /\ file_tree = InsertRows(<<>>, Sorted(files_arg.items)))

\* A Submit got 200 and its List ended Ok with two rows.
C3_Witness ==
    /\ op = "submit"
    /\ ListEndedOk
    /\ Has(log, "File submitted successfully!")
    /\ Len(file_tree) = 2

\* The messages submit_file reports a failure with.
SubmitFailures ==
    {"Error: No file selected!", "Error: SUPA_UNPACK_API_URL is not set.",
     "Error: Authorization token not found in environment variables!",
     "An unexpected error occurred during file submission",
     "Network or API error during submission", "Failed to submit file"}

\* C4: a Submit that ends otherwise than Ok reports the failure that
\* happened in one error dialog, calls no List, and leaves the cache and the
\* selection as they were.
C4_FailedSubmitFrame ==
    [][((SubmitCall /\ pc' # "submit_post") \/ (SubmitReturns /\ ~Receives(200))) =>
        /\ pc' = "idle"
        /\ list_calls' = 0
        /\ ~Has(sent', "list")
        /\ file_tree' = file_tree
        /\ selected_file' = selected_file
        /\ Len(dialogs') = 1
        /\ dialogs'[1] \in {"Error", "Configuration Error", "Network Error"}
        /\ log'[Len(log')] \in SubmitFailures
        /\ EndsWith("Error: No file selected!") => selected_file = None
        /\ EndsWith("Error: SUPA_UNPACK_API_URL is not set.") =>
             SUPA_UNPACK_API_URL = None
        /\ EndsWith("Error: Authorization token not found in environment variables!") =>
             environ_token \in {None, ""}
        /\ EndsWith("An unexpected error occurred during file submission") =>
             selected_file \in Unreadable
        /\ EndsWith("Network or API error during submission") => response'.exc
        /\ EndsWith("Failed to submit file") =>
             response'.got /\ ~response'.exc /\ response'.status_code # 200]_vars

\* A Submit failed on a non-200 status while the cache held rows.
C4_Witness ==
    /\ op = "submit"
    /\ Ended("Failed to submit file")
    /\ response.status_code = 500
    /\ file_tree # <<>>

\* C5: a Submit invoked without a selection reports "No file selected!" and
\* sends nothing.
C5_NoSelectionNoNetwork ==
    [][(SubmitCall /\ selected_file = None) =>
        /\ pc' = "idle"
        /\ log' = <<"Error: No file selected!">>
        /\ dialogs' = <<"Error">>
        /\ sent' = <<>>
        /\ list_calls' = 0]_vars

\* A Submit without a selection ended while the cache held rows.
C5_Witness ==
    /\ op = "submit"
    /\ selected_file = None
    /\ Ended("Error: No file selected!")
    /\ sent = <<>>
    /\ file_tree # <<>>

\* The bearer token is absent: unset, or set to the empty string.
TokenAbsent == environ_token \in {None, ""}

\* A step that invokes an operation (on a row, for Download) while an
\* endpoint URL it requires or the token is absent.
InvokedUnconfigured ==
    \/ SubmitCall /\ (SUPA_UNPACK_API_URL = None \/ TokenAbsent)
    \/ ListCall /\ (SUPA_UNPACK_API_URL = None \/ TokenAbsent)
    \/ DownloadCall /\ log' # <<>> /\ (SUPA_MAIN_API_URL = None \/ TokenAbsent)

ConfigurationErrors ==
    {"Error: SUPA_UNPACK_API_URL is not set.", "Error: SUPA_MAIN_API_URL is not set.",
     "Error: Authorization token not found in environment variables!"}

ReportsConfigurationError ==
    /\ dialogs' = <<"Configuration Error">>
    /\ log'[Len(log')] \in ConfigurationErrors
    /\ EndsWith("Error: Authorization token not found in environment variables!")
         => TokenAbsent
    /\ EndsWith("Error: SUPA_UNPACK_API_URL is not set.") => SUPA_UNPACK_API_URL = None
    /\ EndsWith("Error: SUPA_MAIN_API_URL is not set.") => SUPA_MAIN_API_URL = None

\* C6, as stated: an operation invoked while a URL it requires or the token
\* is absent sends nothing and reports the configuration error.
C6_AsStated ==
    [][InvokedUnconfigured => sent' = <<>> /\ ReportsConfigurationError]_vars

\* C6, amended: such an operation sends nothing, and it reports the
\* configuration error unless an earlier check has ended it: Submit without
\* a selection, Submit of a file that cannot be read (it is read before the
\* token is), Download of a row whose name is empty.  The token is the one
\* in the environment at the call.
C6_UnconfiguredSendsNothing ==
    [][InvokedUnconfigured =>
        /\ sent' = <<>>
        /\ pc' = "idle"
        /\ \/ ReportsConfigurationError
           \/ SubmitCall /\ selected_file = None /\ EndsWith("Error: No file selected!")
           \/ /\ SubmitCall
              /\ selected_file \in Unreadable
              /\ SUPA_UNPACK_API_URL # None
              /\ EndsWith("An unexpected error occurred during file submission")
           \/ DownloadCall /\ EndsWith("No file selected for download.")]_vars

\* A Download of a listed file was stopped by the token, which was there
\* when the listing was fetched and is gone at the call.
C6_Witness ==
    /\ op = "download"
    /\ Ended("Error: Authorization token not found in environment variables!")
    /\ dialogs = <<"Configuration Error">>
    /\ sent = <<>>
    /\ file_tree # <<>>
    /\ environ_token = None

\* C7: a Download answered with 404 reports "not found", leaves the cache
\* as it was, never asks for a save path and opens no file for writing.
C7_NotFound ==
    [][(DownloadReturns /\ Receives(404)) =>
        /\ EndsWith("not found on the server.")
        /\ dialogs' = <<"Error">>
        /\ file_tree' = file_tree
        /\ written' = <<>>
        /\ ~asked_save']_vars

\* A Download ended in "not found" while the cache held rows.
C7_Witness ==
    /\ op = "download"
    /\ Ended("not found on the server.")
    /\ response.status_code = 404
    /\ file_tree # <<>>

\* What list_files reports when it cannot use a 200 body.
MalformedReports ==
    {"Failed to parse JSON response from API.",
     "Network or API error during file listing",
     "An unexpected error occurred during file listing"}

HasMessage(body) == body.kind = "object" /\ body.message
HasAllThree(body) ==
    HasMessage(body) /\ body.files.tag # "absent" /\ body.count.tag # "absent"

WithKey(rows, k) == SelectSeq(rows, LAMBDA r : Lower(r.name) = k)

\* C9: the cache is always ascending by lower-cased name, and after a List
\* that ended Ok rows of equal lower-cased name are in the server's order.
C9_CacheSortedByName ==
    /\ \A i, j \in 1..Len(file_tree) :
         i < j => ~StrLess(Lower(file_tree[j].name), Lower(file_tree[i].name))
    /\ ListEndedOk =>
         \A i \in 1..Len(file_tree) :
            WithKey(file_tree, Lower(file_tree[i].name))
              = WithKey(RowsOf(files_arg.items), Lower(file_tree[i].name))

\* The messages an operation ends with, by outcome.
Succeeded == {"Retrieved files.", "downloaded and saved"}
Cancelled == {"Download cancelled."}
Failed ==
    SubmitFailures \cup ConfigurationErrors \cup MalformedReports
      \cup {"Failed to list files", "No file selected for download.",
            "not found on the server.", "Failed to download file",
            "Network or API error during download",
            "An unexpected error occurred during download"}

InFlight == pc # "idle"

\* C10: an invocation that is blocked in a request comes back to idle; an
\* invocation that is over has ended in one of Succeeded, Failed and
\* Cancelled; no exception leaves a handler, and a request that raised has
\* been reported in an error dialog.
C10_AlwaysBackToIdle ==
    /\ []<>(~InFlight)
    /\ [](~escaped)
    /\ [](pc = "idle" /\ op \in {"submit", "list", "download"} /\ log # <<>> =>
            log[Len(log)] \in Succeeded \cup Failed \cup Cancelled)
    /\ [](pc = "idle" /\ response.exc =>
            /\ log[Len(log)] \in Failed
            /\ dialogs[Len(dialogs)] = "Network Error")

\* A Download whose write raised ended in a reported failure.
C10_Witness ==
    /\ op = "download"
    /\ Ended("An unexpected error occurred during download")
    /\ dialogs = <<"Error">>
    /\ asked_save
    /\ ~escaped

\* The process has run main() (start-up took place) rather than being imported.
StartedUp == phase \in {"mainloop", "exited"}

\* C11: start-up ends the process exactly when one of the two URLs or the
\* token is absent, after a notification; an ended process has invoked no
\* operation and sent no request, and it never leaves that state; wherever
\* the started application can invoke an operation all three are present.
C11_StartupGate ==
    /\ [][(phase = "imported" /\ StartedUp') =>
            /\ phase' = "exited" <=> \/ SUPA_UNPACK_API_URL' = None
                                     \/ SUPA_MAIN_API_URL' = None
                                     \/ Falsy(environ_token)
            /\ phase' = "exited" => /\ Len(dialogs') >= 2
                                    /\ \A i \in 1..Len(dialogs') :
                                         dialogs'[i] = "Configuration Error"]_vars
    /\ [][phase = "exited" => vars' = vars]_vars
    /\ [](phase = "exited" =>
            op = "main" /\ sent = <<>> /\ list_calls = 0 /\ pc = "idle"
            /\ ~response.got)
    /\ [](phase = "mainloop" =>
            /\ SUPA_UNPACK_API_URL # None
            /\ SUPA_MAIN_API_URL # None
            /\ ~Falsy(environ_token))

\* Start-up found only the token missing and ended the process.
C11_Witness ==
    /\ phase = "exited"
    /\ SUPA_UNPACK_API_URL # None
    /\ SUPA_MAIN_API_URL # None
    /\ Falsy(environ_token)
    /\ dialogs = <<"Configuration Error", "Configuration Error">>

\* A step of Submit, List or Download: the call of the handler or its return
\* from the post.
OperationStep == pc # "idle" \/ op' \in {"submit", "list", "download"}

\* C12: only choose_file changes the selection; no step of Submit, of List
\* (the one chained from Submit included) or of Download changes it,
\* whatever the outcome.
C12_OnlyChooseSelects ==
    /\ [][OperationStep => selected_file' = selected_file]_vars
    /\ [][selected_file' # selected_file => (Idle /\ op' = "choose")]_vars

\* A Submit succeeded, its chained List ended Ok, and the file it sent is
\* still selected.
C12_Witness ==
    /\ op = "submit"
    /\ pc = "idle"
    /\ sent = <<"submit", "list">>
    /\ ListEndedOk
    /\ selected_file \in LocalPaths
    /\ file_tree # <<>>

\* C13: after a List that ended Ok, the count it reported is the number of
\* rows in the cache.
C13_CountIsCacheSize ==
    ListEndedOk => count_reported = CountInt(Len(file_tree))

\* C14: a Download answered with 200 asks for a save path and changes neither
\* the cache nor the selection.  When the dialog is cancelled it ends with
\* "Download cancelled.", shows no dialog, raises nothing and opens no file.
\* When a path is returned the only file it opens is that path, and what a
\* completed write leaves there is the content of the response; a write that
\* faults is reported as a failure, never as a saved file.
C14_CancelNeutralSaveExact ==
    [][(DownloadReturns /\ Receives(200)) =>
        /\ asked_save'
        /\ file_tree' = file_tree
        /\ selected_file' = selected_file
        /\ save_path' = "" =>
             /\ EndsWith("Download cancelled.")
             /\ dialogs' = <<>>
             /\ written' = <<>>
             /\ ~escaped'
        /\ save_path' # "" =>
             /\ ~EndsWith("Download cancelled.")
             /\ \A i \in 1..Len(written') : written'[i].path = save_path'
             /\ EndsWith("downloaded and saved") <=>
                    written' = <<Wrote(save_path', response'.content)>>
             /\ ~EndsWith("downloaded and saved") =>
                    /\ EndsWith("An unexpected error occurred during download")
                    /\ dialogs' = <<"Error">>]_vars

\* A Download of a cached row got 200 and the save dialog was cancelled.
C14_Witness ==
    /\ op = "download"
    /\ pc = "idle"
    /\ response.got /\ response.status_code = 200
    /\ asked_save /\ save_path = ""
    /\ Ended("Download cancelled.")
    /\ written = <<>>
    /\ file_tree # <<>>

C16_NoRetry ==
    /\ [](op = "list" => sent \in {<<>>, <<"list">>})
    /\ [](op = "download" => sent \in {<<>>, <<"download">>})
    /\ [](op = "submit" =>
            sent \in {<<>>, <<"submit">>, <<"submit", "list">>})
    /\ [](op \in {"none", "main", "choose"} => sent = <<>>)
    /\ [](InFlight => sent # <<>>)
    /\ [][(InFlight /\ ~(SubmitReturns /\ Receives(200))) =>
            sent' = sent /\ pc' = "idle"]_vars

\* A Submit was answered with 500 and ended having sent its one request.
C16_Witness ==
    /\ op = "submit"
    /\ pc = "idle"
    /\ response.got /\ response.status_code = 500
    /\ Ended("Failed to submit file")
    /\ sent = <<"submit">>

\* A step of download_file: its call or its return from the post.
DownloadStep == (Idle /\ op' = "download") \/ DownloadReturns

\* C17: no step of Download changes the cache, whatever its outcome; a
\* Download posts a request only for a non-empty name that a cached row
\* holds, and one that reports "No file selected for download." has sent
\* nothing and is over.
C17_DownloadKeepsCache ==
    /\ [][DownloadStep => file_tree' = file_tree]_vars
    /\ [][(Idle /\ op' = "download" /\ pc' = "download_post") =>
            /\ filename' # <<>>
            /\ \E i \in 1..Len(file_tree) : file_tree[i].name = filename'
            /\ sent' = <<"download">>]_vars
    /\ [][(Idle /\ op' = "download"
              /\ log' \in {<<>>, <<"No file selected for download.">>}) =>
            /\ sent' = <<>> /\ pc' = "idle" /\ dialogs' = <<>>]_vars
    /\ [](pc # "download_post" => filename = <<>>)

\* A Download of a row whose name is empty ended without a request, the
\* cache still holding that row.
C17_Witness ==
    /\ op = "download"
    /\ pc = "idle"
    /\ log = <<"No file selected for download.">>
    /\ sent = <<>>
    /\ \E i \in 1..Len(file_tree) : file_tree[i].name = <<>>

====
